---- MODULE Spec2Model ----
(***************************************************************************)
(* mini-tip: feed ingestion pipeline (src/feeds.py), run coordinator and   *)
(* triggers (src/app.py) and the SQLite store (src/db.py).                 *)
(*                                                                         *)
(* Three threads of control can run jobs: the scheduler's urlhaus job, the *)
(* scheduler's spamhaus job and the manual POST /feeds/run handler, which  *)
(* runs both families back to back.  Every SQL statement is one atomic     *)
(* step (each db.py function opens its own connection, executes a single   *)
(* statement and commits); every storage call may instead raise.  Every    *)
(* network request returns a payload, an HTTP error status or a timeout.   *)
(*                                                                         *)
(* Spec is the pipeline under every interleaving of its three threads.     *)
(* PureSpec applies the read-only operations (the GET /indicators query    *)
(* and the two row/line parsers) to inputs drawn from bounded sets.        *)
(***************************************************************************)
EXTENDS Integers, Sequences, FiniteSets, TLC

\* ------------------------------------------------------------------ bounds
MaxTriggers == 2
MaxRows == 3        \* rows of a store that is queried

\* --------------------------------------------------------------- constants
URLHAUS_CONFIDENCE == 80
SPAMHAUS_CONFIDENCE == 70
DEFAULT_LIMIT == 50

Procs == {"sched_urlhaus", "sched_spamhaus", "manual"}

NULL == "NULL"
NoTime == <<>>          \* a NULL timestamp column; a set one is <<t>>

\* ----------------------------------------------------------------- strings
\* str.lower() on the tokens that occur in payloads
Lower(s) ==
  CASE s = "OFFLINE" -> "offline"
    [] s = "Offline" -> "offline"
    [] s = "ONLINE" -> "online"
    [] s = "<!DOCTYPE" -> "<!doctype"
    [] s = "<HTML" -> "<html"
    [] OTHER -> s

\* str.startswith(prefix) on the tokens that occur in payloads: every token
\* is listed with the prefixes the code tests for
Prefixes(s) ==
  CASE s = "http://a.example/x" -> {"http://"}
    [] s = "https://b.example/y" -> {"https://"}
    [] s = "<!doctype" -> {"<!doctype"}
    [] s = "<html" -> {"<html"}
    [] OTHER -> {}

startswith(s, prefix) == prefix \in Prefixes(s)

\* `a or b` on strings: the first non-empty one
Or(a, b) == IF a # "" THEN a ELSE b

\* `"/" in tok`
HasSlash(tok) ==
  tok \in {"198.51.100.0/24", "2001:db8::/32", "</html>", "203.0.113.0/24;SBL1", "a/cidr"}

\* ---------------------------------------------------------------- payloads
\* A payload is a sequence of lines.  Line kinds:
\*   blank    only whitespace
\*   comment  [c]: the first non-blank character is c ("#" or ";")
\*   markup   [tag]: optional leading whitespace, then a tag such as
\*            "<!DOCTYPE" or "<html"
\*   header   the CSV header line naming url, dateadded, firstseen,
\*            url_status, status, tags
\*   row      a CSV data row; a string cell is "" when empty, a timestamp
\*            cell is <<>> when empty and <<t>> otherwise
\*   text     [s, toks]: any other line, s its stripped content and toks
\*            its whitespace-delimited tokens
Blank == [k |-> "blank"]
Comment(c) == [k |-> "comment", c |-> c]
Header == [k |-> "header"]
Markup(tag) == [k |-> "markup", tag |-> tag]
Row(url, dateadded, firstseen, url_status, status, tags) ==
  [k |-> "row", url |-> url, dateadded |-> dateadded, firstseen |-> firstseen,
   url_status |-> url_status, status |-> status, tags |-> tags]
Text(s, toks) == [k |-> "text", s |-> s, toks |-> toks]

\* `raw.split()[0]` of a non-blank line
first_token(ln) ==
  CASE ln.k = "text" -> ln.toks[1]
    [] ln.k = "markup" -> ln.tag
    [] ln.k = "comment" -> ln.c
    [] OTHER -> ln.k

\* ----------------------------------------------------------------- parsers
\* The liveness value compared without .lower()
csv_row_indicator_case_sensitive(row, now) ==
  LET dateadded == IF row.dateadded # <<>> THEN row.dateadded[1]
                   ELSE IF row.firstseen # <<>> THEN row.firstseen[1]
                   ELSE now
      status_field == Or(row.url_status, row.status)
      status == IF status_field = "offline" THEN "inactive" ELSE "active"
  IN [type |-> "url", value |-> row.url, source |-> "urlhaus",
      first_seen |-> dateadded, last_seen |-> dateadded,
      tags |-> row.tags, confidence |-> URLHAUS_CONFIDENCE, status |-> status]

\* feeds.py:61-82, one DictReader row
csv_row_indicator(row, now) ==
  LET dateadded == IF row.dateadded # <<>> THEN row.dateadded[1]
                   ELSE IF row.firstseen # <<>> THEN row.firstseen[1]
                   ELSE now
      status_field == Lower(Or(row.url_status, row.status))
      status == IF status_field = "offline" THEN "inactive" ELSE "active"
  IN [type |-> "url", value |-> row.url, source |-> "urlhaus",
      first_seen |-> dateadded, last_seen |-> dateadded,
      tags |-> row.tags, confidence |-> URLHAUS_CONFIDENCE, status |-> status]

RECURSIVE csv_rows(_, _)
csv_rows(rows, now) ==
  IF rows = <<>> THEN <<>>
  ELSE LET row == Head(rows)
           rest == csv_rows(Tail(rows), now)
       IN IF row.k # "row" \/ row.url = "" THEN rest
          ELSE <<csv_row_indicator(row, now)>> \o rest

IsCsvLine(ln) == ln.k # "blank" /\ ~(ln.k = "comment" /\ ln.c = "#")

\* feeds.py:48-83.  The first kept line is the DictReader's header; when it
\* is not the header line, no later row has a "url" key.
parse_urlhaus_csv(text, now) ==
  LET rows == SelectSeq(text, IsCsvLine)
  IN IF rows = <<>> THEN <<>>
     ELSE IF Head(rows).k # "header" THEN <<>>
     ELSE csv_rows(Tail(rows), now)

\* feeds.py:86-107
RECURSIVE parse_urlhaus_text(_, _)
parse_urlhaus_text(text, now) ==
  IF text = <<>> THEN <<>>
  ELSE LET ln == Head(text)
           rest == parse_urlhaus_text(Tail(text), now)
       IN IF ln.k = "text"
             /\ (startswith(ln.s, "http://") \/ startswith(ln.s, "https://"))
          THEN <<[type |-> "url", value |-> ln.s, source |-> "urlhaus",
                  first_seen |-> now, last_seen |-> now, tags |-> "",
                  confidence |-> URLHAUS_CONFIDENCE, status |-> "active"]>> \o rest
          ELSE rest

\* The parser without its test for "/" in the first token
RECURSIVE parse_spamhaus_text_any_token(_, _, _)
parse_spamhaus_text_any_token(text, source_name, now) ==
  IF text = <<>> THEN <<>>
  ELSE LET raw == Head(text)
           rest == parse_spamhaus_text_any_token(Tail(text), source_name, now)
       IN IF raw.k = "blank" \/ (raw.k = "comment" /\ raw.c = ";") THEN rest
          ELSE <<[type |-> "cidr", value |-> first_token(raw), source |-> source_name,
                  first_seen |-> now, last_seen |-> now, tags |-> "drop-list",
                  confidence |-> SPAMHAUS_CONFIDENCE, status |-> "active"]>> \o rest

\* feeds.py:142-168
RECURSIVE parse_spamhaus_text(_, _, _)
parse_spamhaus_text(text, source_name, now) ==
  IF text = <<>> THEN <<>>
  ELSE LET raw == Head(text)
           rest == parse_spamhaus_text(Tail(text), source_name, now)
       IN IF raw.k = "blank" \/ (raw.k = "comment" /\ raw.c = ";") THEN rest
          ELSE IF HasSlash(first_token(raw))
          THEN <<[type |-> "cidr", value |-> first_token(raw), source |-> source_name,
                  first_seen |-> now, last_seen |-> now, tags |-> "drop-list",
                  confidence |-> SPAMHAUS_CONFIDENCE, status |-> "active"]>> \o rest
          ELSE rest

\* ---------------------------------------------------------------- fetchers
URLHAUS_RECENT_CSV == "csv_recent"
URLHAUS_RECENT_TXT == "text_recent"
SPAMHAUS_LISTS == <<"spamhaus-drop", "spamhaus-edrop", "spamhaus-dropv6">>

\* What requests.get + raise_for_status can do: return a body, raise for a
\* non-success status (whose body, here an HTML error page, is never read),
\* or raise for a timeout / connection failure (REQUEST_TIMEOUT, no body).
Ok(text) == [outcome |-> "ok", text |-> text]
HttpError == [outcome |-> "http_error", text |-> <<Markup("<html")>>]
Timeout == [outcome |-> "timeout", text |-> <<>>]

\* str(e) of the exception a failed request raises
transport_message(resp) ==
  IF resp.outcome = "timeout" THEN "Read timed out." ELSE "503 Server Error"

HTML_MESSAGE == "URLhaus returned HTML (possible block page)."
STORAGE_MESSAGE == "database is locked"

RECURSIVE lstrip(_)
lstrip(text) ==
  IF text # <<>> /\ Head(text).k = "blank" THEN lstrip(Tail(text)) ELSE text

\* The check without .lower()
is_block_page_case_sensitive(text) ==
  LET rest == lstrip(text)
      first == IF rest # <<>> /\ Head(rest).k = "markup" THEN Head(rest).tag ELSE ""
  IN startswith(first, "<!doctype") \/ startswith(first, "<html")

\* feeds.py:125-126
is_block_page(text) ==
  LET rest == lstrip(text)
      first == IF rest # <<>> /\ Head(rest).k = "markup"
               THEN Lower(Head(rest).tag) ELSE ""
  IN startswith(first, "<!doctype") \/ startswith(first, "<html")

\* The tabular result returned even when it is empty
urlhaus_csv_step_no_fallback(resp, now) ==
  IF resp.outcome # "ok"
  THEN [next |-> "raise", exc |-> transport_message(resp), inds |-> <<>>, parsed |-> FALSE]
  ELSE IF is_block_page(resp.text)
  THEN [next |-> "raise", exc |-> HTML_MESSAGE, inds |-> <<>>, parsed |-> FALSE]
  ELSE [next |-> "return", exc |-> NULL,
        inds |-> parse_urlhaus_csv(resp.text, now), parsed |-> TRUE]

\* feeds.py:120-131: the tabular request and what follows from its response.
\* next: "raise" (exc is the message), "return" (inds) or "fallback".
\* parsed tells whether _parse_urlhaus_csv was called.
urlhaus_csv_step(resp, now) ==
  IF resp.outcome # "ok"
  THEN [next |-> "raise", exc |-> transport_message(resp), inds |-> <<>>, parsed |-> FALSE]
  ELSE IF is_block_page(resp.text)
  THEN [next |-> "raise", exc |-> HTML_MESSAGE, inds |-> <<>>, parsed |-> FALSE]
  ELSE LET indicators == parse_urlhaus_csv(resp.text, now)
       IN IF indicators # <<>>
          THEN [next |-> "return", exc |-> NULL, inds |-> indicators, parsed |-> TRUE]
          ELSE [next |-> "fallback", exc |-> NULL, inds |-> <<>>, parsed |-> TRUE]

\* feeds.py:133-136
urlhaus_txt_step(resp, now) ==
  IF resp.outcome # "ok"
  THEN [next |-> "raise", exc |-> transport_message(resp), inds |-> <<>>]
  ELSE [next |-> "return", exc |-> NULL, inds |-> parse_urlhaus_text(resp.text, now)]

\* A failed tabular request caught and answered by trying the fallback
fetch_urlhaus_recent_fallback_on_error(csv, txt, now) ==
  LET st == urlhaus_csv_step(csv, now)
  IN IF st.next = "return" \/ (st.next = "raise" /\ csv.outcome = "ok")
     THEN [raised |-> st.next = "raise", exc |-> st.exc, inds |-> st.inds,
           reqs |-> <<URLHAUS_RECENT_CSV>>, parsed |-> st.parsed]
     ELSE LET st2 == urlhaus_txt_step(txt, now)
          IN [raised |-> st2.next = "raise", exc |-> st2.exc, inds |-> st2.inds,
              reqs |-> <<URLHAUS_RECENT_CSV, URLHAUS_RECENT_TXT>>, parsed |-> st.parsed]

\* feeds.py:110-136: csv and txt are what the two endpoints answer when they
\* are asked.  reqs lists the requests made, in order.
fetch_urlhaus_recent(csv, txt, now) ==
  LET st == urlhaus_csv_step(csv, now)
  IN IF st.next # "fallback"
     THEN [raised |-> st.next = "raise", exc |-> st.exc, inds |-> st.inds,
           reqs |-> <<URLHAUS_RECENT_CSV>>, parsed |-> st.parsed]
     ELSE LET st2 == urlhaus_txt_step(txt, now)
          IN [raised |-> st2.next = "raise", exc |-> st2.exc, inds |-> st2.inds,
              reqs |-> <<URLHAUS_RECENT_CSV, URLHAUS_RECENT_TXT>>, parsed |-> st.parsed]

\* feeds.py:178-187: the loop over the three lists from position i on, with
\* the indicators collected and the requests made so far; resps[i] is what
\* list i answers when it is asked
RECURSIVE spamhaus_loop(_, _, _, _, _)
spamhaus_loop(i, indicators, reqs, resps, now) ==
  IF i > Len(SPAMHAUS_LISTS)
  THEN [raised |-> FALSE, exc |-> NULL, inds |-> indicators, reqs |-> reqs,
        parsed |-> FALSE]
  ELSE LET name == SPAMHAUS_LISTS[i]
           asked == Append(reqs, name)
       IN IF resps[i].outcome # "ok"
          THEN [raised |-> TRUE, exc |-> transport_message(resps[i]), inds |-> <<>>,
                reqs |-> asked, parsed |-> FALSE]
          ELSE spamhaus_loop(i + 1,
                 indicators \o parse_spamhaus_text(resps[i].text, name, now),
                 asked, resps, now)

\* Each request wrapped in its own try/except: a list that fails is skipped
\* and what the lists before it gave is returned
fetch_spamhaus_all_skip_failed(resps, now) ==
  LET f == spamhaus_loop(1, <<>>, <<>>, resps, now)
  IN IF f.raised
     THEN [f EXCEPT !.raised = FALSE, !.exc = NULL,
                    !.inds = IF resps[1].outcome = "ok"
                             THEN parse_spamhaus_text(resps[1].text, SPAMHAUS_LISTS[1], now)
                             ELSE <<>>]
     ELSE f

\* feeds.py:171-187
fetch_spamhaus_all(resps, now) == spamhaus_loop(1, <<>>, <<>>, resps, now)

\* ------------------------------------------------------------------- store
\* db.py:67-79: INSERT ... ON CONFLICT(value, source) DO UPDATE.  The table
\* is the sequence of its rows in rowid order.
\* A conflict target of value alone
SameValue(row, ind) == row.value = ind.value

SameKey(row, ind) == row.value = ind.value /\ row.source = ind.source

\* A plain INSERT on a table without the UNIQUE constraint
upsert_always_insert(tbl, ind) ==
  Append(tbl, [id |-> Len(tbl) + 1, type |-> ind.type, value |-> ind.value,
               source |-> ind.source, first_seen |-> ind.first_seen,
               last_seen |-> ind.last_seen, tags |-> ind.tags,
               confidence |-> ind.confidence, status |-> ind.status])

\* INSERT OR REPLACE: on conflict every column is the incoming one
upsert_replace(tbl, ind) ==
  IF \E i \in DOMAIN tbl : SameKey(tbl[i], ind)
  THEN [i \in DOMAIN tbl |->
          IF SameKey(tbl[i], ind)
          THEN [id |-> tbl[i].id, type |-> ind.type, value |-> ind.value,
                source |-> ind.source, first_seen |-> ind.first_seen,
                last_seen |-> ind.last_seen, tags |-> ind.tags,
                confidence |-> ind.confidence, status |-> ind.status]
          ELSE tbl[i]]
  ELSE upsert_always_insert(tbl, ind)

\* DO UPDATE SET without status and confidence
upsert_partial(tbl, ind) ==
  IF \E i \in DOMAIN tbl : SameKey(tbl[i], ind)
  THEN [i \in DOMAIN tbl |->
          IF SameKey(tbl[i], ind)
          THEN [tbl[i] EXCEPT !.last_seen = ind.last_seen, !.tags = ind.tags]
          ELSE tbl[i]]
  ELSE upsert_always_insert(tbl, ind)

upsert_indicator(tbl, ind) ==
  IF \E i \in DOMAIN tbl : SameKey(tbl[i], ind)
  THEN [i \in DOMAIN tbl |->
          IF SameKey(tbl[i], ind)
          THEN [tbl[i] EXCEPT !.last_seen = ind.last_seen, !.tags = ind.tags,
                              !.status = ind.status, !.confidence = ind.confidence]
          ELSE tbl[i]]
  ELSE Append(tbl, [id |-> Len(tbl) + 1, type |-> ind.type, value |-> ind.value,
                    source |-> ind.source, first_seen |-> ind.first_seen,
                    last_seen |-> ind.last_seen, tags |-> ind.tags,
                    confidence |-> ind.confidence, status |-> ind.status])

\* db.py:83-94
record_feed_run_start(runs, source, now) ==
  Append(runs, [id |-> Len(runs) + 1, source |-> source, started_at |-> <<now>>,
                finished_at |-> NoTime, items_ingested |-> 0,
                status |-> "running", error_text |-> NULL])

\* The UPDATE without finished_at
record_feed_run_end_no_finished_at(runs, id, items_ingested, status, error_text, now) ==
  [i \in DOMAIN runs |->
     IF runs[i].id = id
     THEN [runs[i] EXCEPT !.items_ingested = items_ingested,
                          !.status = status, !.error_text = error_text]
     ELSE runs[i]]

\* The UPDATE without items_ingested
record_feed_run_end_no_count(runs, id, items_ingested, status, error_text, now) ==
  [i \in DOMAIN runs |->
     IF runs[i].id = id
     THEN [runs[i] EXCEPT !.finished_at = <<now>>,
                          !.status = status, !.error_text = error_text]
     ELSE runs[i]]

\* db.py:96-106
record_feed_run_end(runs, id, items_ingested, status, error_text, now) ==
  [i \in DOMAIN runs |->
     IF runs[i].id = id
     THEN [runs[i] EXCEPT !.finished_at = <<now>>, !.items_ingested = items_ingested,
                          !.status = status, !.error_text = error_text]
     ELSE runs[i]]

\* ------------------------------------------------------------------- query
\* app.py:101: the columns of the SELECT list
select_columns(row) ==
  [type |-> row.type, value |-> row.value, source |-> row.source,
   first_seen |-> row.first_seen, last_seen |-> row.last_seen, tags |-> row.tags,
   confidence |-> row.confidence, status |-> row.status]

\* ORDER BY last_seen DESC: every ordering of the rows that it allows (SQL
\* leaves the order of rows with equal last_seen open)
RECURSIVE order_by_last_seen_desc(_)
order_by_last_seen_desc(rows) ==
  IF rows = {} THEN {<<>>}
  ELSE UNION { {<<r>> \o rest : rest \in order_by_last_seen_desc(rows \ {r})} :
               r \in {x \in rows : \A y \in rows : y.last_seen <= x.last_seen} }

\* LIMIT ?: SQLite reads a negative LIMIT as no limit
limit_count(total, limit) ==
  IF limit < 0 THEN total ELSE IF limit < total THEN limit ELSE total

\* The rows in rowid order, with no ORDER BY
indicators_query_unordered(tbl, limit) ==
  { [i \in 1..limit_count(Len(tbl), limit) |-> select_columns(tbl[i])] }

\* app.py:90-120 with no q, type or source filter: the set of responses the
\* query can give
indicators_query(tbl, limit) ==
  { [i \in 1..limit_count(Len(tbl), limit) |-> select_columns(sorted[i])] :
      sorted \in order_by_last_seen_desc({tbl[i] : i \in DOMAIN tbl}) }

\* ------------------------------------------------------------------ inputs
URL_A == "http://a.example/x"
URL_B == "https://b.example/y"
CIDR_A == "198.51.100.0/24"

CsvTexts ==
  { <<Comment("#"), Header, Row(URL_A, <<0>>, <<>>, "online", "", "malware")>>,
    <<Header, Row(URL_A, <<>>, <<>>, "OFFLINE", "", ""),
              Row("", <<1>>, <<>>, "", "", ""),
              Row(URL_B, <<>>, <<1>>, "", "offline", "")>>,
    <<Comment("#"), Header>>,
    <<Blank, Markup("<!DOCTYPE")>>,
    <<Markup("<HTML")>> }

TxtTexts ==
  { <<Comment("#"), Text(URL_A, <<URL_A>>), Text("ftp://c.example/z", <<"ftp://c.example/z">>)>>,
    <<Blank>>,
    <<Text(URL_B, <<URL_B>>), Text(URL_B, <<URL_B>>)>> }

SPAM_LISTED ==
  <<Comment(";"), Text("198.51.100.0/24 ; ref text", <<CIDR_A, ";", "ref", "text">>),
    Text("nocidr", <<"nocidr">>)>>
SPAM_EMPTY == <<Comment(";")>>

\* What the three drop lists answer in one cycle
SpamResponses ==
  { <<Ok(SPAM_LISTED), Ok(SPAM_EMPTY), Ok(SPAM_LISTED)>>,
    <<Ok(SPAM_EMPTY), Ok(SPAM_EMPTY), Ok(SPAM_EMPTY)>>,
    <<HttpError, Ok(SPAM_LISTED), Ok(SPAM_LISTED)>>,
    <<Ok(SPAM_LISTED), Timeout, Ok(SPAM_LISTED)>>,
    <<Ok(SPAM_LISTED), Ok(SPAM_LISTED), HttpError>> }

Responses(texts) == {Ok(t) : t \in texts} \cup {HttpError, Timeout}

\* ------------------------------------------------------------------- state
VARIABLES
  indicators,   \* table indicators (db.py:19-32)
  feed_runs,    \* table feed_runs (db.py:37-47)
  clock,        \* the UTC clock, in epochs: a new one begins with each run
  pc,           \* per thread: where it is in its job
  fam,          \* per thread: the family whose job it is running
  run_id,       \* per thread: local run_id of the job
  count,        \* per thread: local count of the job
  pending,      \* per thread: indicators fetched and not yet upserted
  exc,          \* per thread: message of the exception being handled
  fired,        \* how many triggers have fired
  response,     \* what the manual trigger answered last
  cur,          \* history, per thread, of the job it is in: requests, answers
  runlog,       \* history, per feed run: its thread and its completed upserts
  hist,         \* history, per (value, source): inserting and last upsert
  probe         \* the read-only operation applied last: its input and result

vars == <<indicators, feed_runs, clock, pc, fam, run_id, count, pending, exc,
          fired, response, cur, runlog, hist, probe>>

Families(p) ==
  CASE p = "sched_urlhaus" -> <<"urlhaus">>
    [] p = "sched_spamhaus" -> <<"spamhaus">>
    [] p = "manual" -> <<"urlhaus", "spamhaus">>

Key(ind) == <<ind.value, ind.source>>

NoCur ==
  [reqs |-> <<>>, answers |-> <<>>, keys |-> {}, csv |-> Timeout, at |-> 0, parsed |-> FALSE,
   fetch |-> "pending", nfetched |-> 0, attempts |-> 0]

NoProbe == [op |-> "none", arg |-> <<>>, out |-> <<>>]

Init ==
  /\ indicators = <<>>
  /\ feed_runs = <<>>
  /\ clock = 0
  /\ pc = [p \in Procs |-> "idle"]
  /\ fam = [p \in Procs |-> Families(p)[1]]
  /\ run_id = [p \in Procs |-> 0]
  /\ count = [p \in Procs |-> 0]
  /\ pending = [p \in Procs |-> <<>>]
  /\ exc = [p \in Procs |-> NULL]
  /\ fired = 0
  /\ response = "none"
  /\ cur = [p \in Procs |-> NoCur]
  /\ runlog = <<>>
  /\ hist = <<>>
  /\ probe = NoProbe

\* --------------------------------------------------------------- triggers
\* app.py:55-56 (an interval firing of a job that is not running: APScheduler
\* runs at most one instance of a job) and app.py:122-127 (POST /feeds/run)
\* A scheduler with a single worker thread: a job fires only while no other
\* scheduled job is running
Trigger_single_worker(p) ==
  /\ pc[p] = "idle"
  /\ p # "manual" => \A q \in Procs \ {p, "manual"} : pc[q] = "idle"
  /\ fired < MaxTriggers
  /\ fired' = fired + 1
  /\ fam' = [fam EXCEPT ![p] = Families(p)[1]]
  /\ pc' = [pc EXCEPT ![p] = "start"]
  /\ response' = IF p = "manual" THEN "none" ELSE response
  /\ UNCHANGED <<probe, indicators, feed_runs, clock, run_id, count, pending, exc,
                 cur, runlog, hist>>

Trigger(p) ==
  /\ pc[p] = "idle"
  /\ fired < MaxTriggers
  /\ fired' = fired + 1
  /\ fam' = [fam EXCEPT ![p] = Families(p)[1]]
  /\ pc' = [pc EXCEPT ![p] = "start"]
  /\ response' = IF p = "manual" THEN "none" ELSE response
  /\ UNCHANGED <<probe, indicators, feed_runs, clock, run_id, count, pending, exc,
                 cur, runlog, hist>>

\* ----------------------------------------------------------------- the job
\* app.py:19-20 / 33-34: run_id = record_feed_run_start(...); count = 0.
\* The call is outside the try block: when it raises, the job raises.
RunStart(p) ==
  /\ pc[p] = "start"
  /\ \/ /\ clock' = clock + 1
        /\ feed_runs' = record_feed_run_start(feed_runs, fam[p], clock')
        /\ run_id' = [run_id EXCEPT ![p] = Len(feed_runs')]
        /\ count' = [count EXCEPT ![p] = 0]
        /\ runlog' = Append(runlog, [proc |-> p, okUpserts |-> 0])
        /\ pc' = [pc EXCEPT ![p] = "fetch"]
        /\ UNCHANGED exc
     \/ /\ exc' = [exc EXCEPT ![p] = STORAGE_MESSAGE]
        /\ pc' = [pc EXCEPT ![p] = "raised"]
        /\ UNCHANGED <<clock, feed_runs, run_id, count, runlog>>
  /\ UNCHANGED <<probe, indicators, fam, pending, fired, response, cur, hist>>

\* app.py:22 / 36: indicators = fetch_...(); an exception goes to the handler.
\* offered is what the endpoints answer when asked, in the order of asking;
\* the history keeps the answers to the requests that were made.
AfterFetch(p, f, csv, offered) ==
  /\ pending' = [pending EXCEPT ![p] = f.inds]
  /\ exc' = [exc EXCEPT ![p] = f.exc]
  /\ pc' = [pc EXCEPT ![p] = IF f.raised THEN "except" ELSE "loop"]
  /\ cur' = [cur EXCEPT ![p] =
       [reqs |-> f.reqs, answers |-> SubSeq(offered, 1, Len(f.reqs)),
        keys |-> {Key(f.inds[i]) : i \in DOMAIN f.inds},
        csv |-> csv, at |-> clock, parsed |-> f.parsed,
        fetch |-> IF f.raised THEN "raised" ELSE "returned",
        nfetched |-> Len(f.inds), attempts |-> 0]]

\* app.py:22 with feeds.py:110-136
FetchUrlhaus(p) ==
  /\ pc[p] = "fetch" /\ fam[p] = "urlhaus"
  /\ \E csv \in Responses(CsvTexts), txt \in Responses(TxtTexts) :
       AfterFetch(p, fetch_urlhaus_recent(csv, txt, clock), csv, <<csv, txt>>)
  /\ UNCHANGED <<probe, indicators, feed_runs, clock, fam, run_id, count, fired,
                 response, runlog, hist>>

\* app.py:36 with feeds.py:171-187
FetchSpamhaus(p) ==
  /\ pc[p] = "fetch" /\ fam[p] = "spamhaus"
  /\ \E resps \in SpamResponses :
       AfterFetch(p, fetch_spamhaus_all(resps, clock), Timeout, resps)
  /\ UNCHANGED <<probe, indicators, feed_runs, clock, fam, run_id, count, fired,
                 response, runlog, hist>>

\* count += 1 placed before the upsert
count_before(c, upserted) == c + 1

\* app.py:25: count after one pass of the loop body, upserted telling whether
\* upsert_indicator returned
count_after(c, upserted) == IF upserted THEN c + 1 ELSE c

\* What a completed upsert leaves in the history of its key
Seen(ind) ==
  [last_seen |-> ind.last_seen, tags |-> ind.tags, status |-> ind.status,
   confidence |-> ind.confidence]

\* app.py:23-25 / 37-39: one pass of the for loop
Upsert(p) ==
  /\ pc[p] = "loop" /\ pending[p] # <<>>
  /\ LET ind == Head(pending[p])
         c == [cur[p] EXCEPT !.attempts = @ + 1]
     IN \/ /\ indicators' = upsert_indicator(indicators, ind)
           /\ hist' = IF Key(ind) \in DOMAIN hist
                      THEN [hist EXCEPT ![Key(ind)].last = Seen(ind)]
                      ELSE (Key(ind) :> [first_seen |-> ind.first_seen,
                                         type |-> ind.type, last |-> Seen(ind)]) @@ hist
           /\ count' = [count EXCEPT ![p] = count_after(@, TRUE)]
           /\ pending' = [pending EXCEPT ![p] = Tail(@)]
           /\ runlog' = [runlog EXCEPT ![run_id[p]].okUpserts = @ + 1]
           /\ UNCHANGED <<pc, exc>>
        \/ /\ count' = [count EXCEPT ![p] = count_after(@, FALSE)]
           /\ exc' = [exc EXCEPT ![p] = STORAGE_MESSAGE]
           /\ pc' = [pc EXCEPT ![p] = "except"]
           /\ pending' = [pending EXCEPT ![p] = <<>>]
           /\ UNCHANGED <<indicators, hist, runlog>>
        /\ cur' = [cur EXCEPT ![p] = c]
  /\ UNCHANGED <<probe, feed_runs, clock, fam, run_id, fired, response>>

\* app.py:26 / 40: record_feed_run_end(run_id, count, "success", None), inside
\* the try block
EndSuccess(p) ==
  /\ pc[p] = "loop" /\ pending[p] = <<>>
  /\ \/ /\ feed_runs' = record_feed_run_end(feed_runs, run_id[p], count[p], "success", NULL, clock)
        /\ pc' = [pc EXCEPT ![p] = "returned"]
        /\ UNCHANGED exc
     \/ /\ exc' = [exc EXCEPT ![p] = STORAGE_MESSAGE]
        /\ pc' = [pc EXCEPT ![p] = "except"]
        /\ UNCHANGED feed_runs
  /\ UNCHANGED <<probe, indicators, clock, fam, run_id, count, pending, fired, response,
                 cur, runlog, hist>>

\* app.py:28-29 / 42-43: the handler; when its own write raises, the job raises
Except(p) ==
  /\ pc[p] = "except"
  /\ \/ /\ feed_runs' = record_feed_run_end(feed_runs, run_id[p], count[p], "error", exc[p], clock)
        /\ pc' = [pc EXCEPT ![p] = "returned"]
        /\ UNCHANGED exc
     \/ /\ exc' = [exc EXCEPT ![p] = STORAGE_MESSAGE]
        /\ pc' = [pc EXCEPT ![p] = "raised"]
        /\ UNCHANGED feed_runs
  /\ UNCHANGED <<probe, indicators, clock, fam, run_id, count, pending, fired, response,
                 cur, runlog, hist>>

\* The job function is left and its locals are gone.  A scheduled job that
\* raised is logged by the scheduler; run_all_feeds (app.py:46-48) calls
\* run_spamhaus_job only after run_urlhaus_job returned, and manual_run
\* (app.py:127-128) answers only after run_all_feeds returned: an exception
\* turns into an error response.
JobExit(p) ==
  /\ pc[p] \in {"returned", "raised"}
  /\ IF pc[p] = "returned" /\ p = "manual" /\ fam[p] = "urlhaus"
     THEN /\ fam' = [fam EXCEPT ![p] = "spamhaus"]
          /\ pc' = [pc EXCEPT ![p] = "start"]
          /\ UNCHANGED response
     ELSE /\ pc' = [pc EXCEPT ![p] = "idle"]
          /\ fam' = [fam EXCEPT ![p] = Families(p)[1]]
          /\ response' = IF p # "manual" THEN response
                         ELSE IF pc[p] = "returned" THEN "Feeds fetched." ELSE "500"
  /\ run_id' = [run_id EXCEPT ![p] = 0]
  /\ count' = [count EXCEPT ![p] = 0]
  /\ pending' = [pending EXCEPT ![p] = <<>>]
  /\ exc' = [exc EXCEPT ![p] = NULL]
  /\ cur' = [cur EXCEPT ![p] = NoCur]
  /\ UNCHANGED <<probe, indicators, feed_runs, clock, fired, runlog, hist>>

Next ==
  \E p \in Procs :
       \/ Trigger(p)
       \/ RunStart(p)
       \/ FetchUrlhaus(p)
       \/ FetchSpamhaus(p)
       \/ Upsert(p)
       \/ EndSuccess(p)
       \/ Except(p)
       \/ JobExit(p)

Spec == Init /\ [][Next]_vars

\* ------------------------------------------------ query and parsers alone
\* The read-only operations, applied to inputs drawn from bounded sets: the
\* query to stores of up to MaxRows records, with last_seen values that
\* repeat; the tabular parser to tables of one or two rows, with every
\* combination of an empty or set url, dateadded, url_status and status; the
\* drop-list parser to lists of one or two lines of every kind.
StoreKeys ==
  <<[type |-> "url", value |-> URL_A, source |-> "urlhaus"],
    [type |-> "cidr", value |-> CIDR_A, source |-> "spamhaus-drop"],
    [type |-> "url", value |-> URL_B, source |-> "urlhaus"],
    [type |-> "cidr", value |-> CIDR_A, source |-> "spamhaus-edrop"],
    [type |-> "cidr", value |-> CIDR_A, source |-> "spamhaus-dropv6"]>>

Stamps == 1..3

StoreRow(i, last_seen) ==
  [id |-> i, type |-> StoreKeys[i].type, value |-> StoreKeys[i].value,
   source |-> StoreKeys[i].source, first_seen |-> 1, last_seen |-> last_seen,
   tags |-> "", confidence |-> IF StoreKeys[i].type = "url" THEN URLHAUS_CONFIDENCE
                               ELSE SPAMHAUS_CONFIDENCE,
   status |-> "active"]

Stores ==
  UNION { { [i \in 1..n |-> StoreRow(i, ls[i])] : ls \in [1..n -> Stamps] } :
          n \in 0..MaxRows }

Limits == {-1, 0, 1, 2, 3, DEFAULT_LIMIT}

ProbeRows ==
  { Row(url, dateadded, <<>>, url_status, status, "") :
      url \in {"", URL_A}, dateadded \in {<<>>, <<2>>},
      url_status \in {"", "online", "offline", "OFFLINE", "Offline"},
      status \in {"", "offline", "ONLINE"} }

ProbeCsvTexts ==
  {<<Header, r>> : r \in ProbeRows}
  \cup {<<Comment("#"), Header, Row(URL_B, <<1>>, <<>>, "", "OFFLINE", "x"), Blank, r>> :
          r \in ProbeRows}

ProbeLines ==
  { Blank, Comment(";"), Comment("#"), Markup("</html>"),
    Text("198.51.100.0/24 ; ref text", <<CIDR_A, ";", "ref", "text">>),
    Text("2001:db8::/32", <<"2001:db8::/32">>),
    Text("203.0.113.0/24;SBL1 x", <<"203.0.113.0/24;SBL1", "x">>),
    Text("nocidr", <<"nocidr">>),
    Text("not a/cidr", <<"not", "a/cidr">>) }

ProbeDropTexts ==
  {<<a>> : a \in ProbeLines} \cup {<<a, b>> : a, b \in ProbeLines}

PureInit ==
  /\ indicators \in Stores
  /\ hist = [k \in {Key(indicators[i]) : i \in DOMAIN indicators} |->
              LET row == indicators[CHOOSE i \in DOMAIN indicators : Key(indicators[i]) = k]
              IN [first_seen |-> row.first_seen, type |-> row.type, last |-> Seen(row)]]
  /\ clock = 3
  /\ feed_runs = <<>>
  /\ pc = [p \in Procs |-> "idle"]
  /\ fam = [p \in Procs |-> Families(p)[1]]
  /\ run_id = [p \in Procs |-> 0]
  /\ count = [p \in Procs |-> 0]
  /\ pending = [p \in Procs |-> <<>>]
  /\ exc = [p \in Procs |-> NULL]
  /\ fired = 0
  /\ response = "none"
  /\ cur = [p \in Procs |-> NoCur]
  /\ runlog = <<>>
  /\ probe = NoProbe

\* app.py:90-120: GET /indicators?limit=n
Query(limit) ==
  /\ \E rows \in indicators_query(indicators, limit) :
       probe' = [op |-> "query", arg |-> limit, out |-> rows]
  /\ UNCHANGED <<indicators, feed_runs, clock, pc, fam, run_id, count, pending,
                 exc, fired, response, cur, runlog, hist>>

\* feeds.py:48-83: _parse_urlhaus_csv(text)
ParseCsv(text) ==
  /\ probe' = [op |-> "parse_csv", arg |-> text,
               out |-> parse_urlhaus_csv(text, clock)]
  /\ UNCHANGED <<indicators, feed_runs, clock, pc, fam, run_id, count, pending,
                 exc, fired, response, cur, runlog, hist>>

\* feeds.py:142-168: _parse_spamhaus_text(text, source_name)
ParseDropList(text, source_name) ==
  /\ probe' = [op |-> "parse_drop", arg |-> text,
               out |-> parse_spamhaus_text(text, source_name, clock)]
  /\ UNCHANGED <<indicators, feed_runs, clock, pc, fam, run_id, count, pending,
                 exc, fired, response, cur, runlog, hist>>

PureNext ==
  \/ \E limit \in Limits : Query(limit)
  \/ \E text \in ProbeCsvTexts : ParseCsv(text)
  \/ \E text \in ProbeDropTexts : ParseDropList(text, SPAMHAUS_LISTS[2])

PureSpec == PureInit /\ [][PureNext]_vars

\* ================================================================== claims
RowsOf(k) == {i \in DOMAIN indicators : Key(indicators[i]) = k}
Terminal(run) == run.status \in {"success", "error"}
\* Some thread is inside the job of run r, between its start and its
\* finalization
Executing(r) == \E p \in Procs : run_id[p] = r /\ pc[p] \in {"fetch", "loop", "except"}
\* Thread p is in, or just leaving, a job whose fetch is over
Fetched(p) == pc[p] \in {"loop", "except", "returned", "raised"} /\ cur[p].fetch # "pending"

\* C1: after any sequence of upserts the store holds exactly one record for
\* each (value, source) ever upserted, and no record of any other key.
C1_Uniqueness ==
  /\ \A k \in DOMAIN hist : Cardinality(RowsOf(k)) = 1
  /\ \A i \in DOMAIN indicators : Key(indicators[i]) \in DOMAIN hist

\* a key upserted more than once (its last_seen moved), among several keys
C1_Witness ==
  /\ Len(indicators) >= 2
  /\ \E i \in DOMAIN indicators : indicators[i].last_seen # indicators[i].first_seen

\* C2: an upsert of a stored (value, source) sets last_seen, tags, status and
\* confidence to the incoming values and leaves first_seen, type, source and
\* value as they were; no step ever changes a stored record's first_seen.
C2_MergeFrame ==
  [][ /\ \A i \in DOMAIN indicators :
           /\ i \in DOMAIN indicators'
           /\ indicators'[i].first_seen = indicators[i].first_seen
           /\ indicators'[i].type = indicators[i].type
           /\ indicators'[i].value = indicators[i].value
           /\ indicators'[i].source = indicators[i].source
      /\ \A p \in Procs :
           (pc[p] = "loop" /\ pending[p] # <<>>
              /\ runlog'[run_id[p]].okUpserts = runlog[run_id[p]].okUpserts + 1)
           => LET ind == Head(pending[p])
              IN \A i \in DOMAIN indicators :
                   SameKey(indicators[i], ind)
                   => /\ indicators'[i].last_seen = ind.last_seen
                      /\ indicators'[i].tags = ind.tags
                      /\ indicators'[i].status = ind.status
                      /\ indicators'[i].confidence = ind.confidence
    ]_vars

\* a record merged with an observation whose first_seen differs from its own
C2_Witness ==
  \E i \in DOMAIN indicators :
    /\ indicators[i].first_seen # indicators[i].last_seen
    /\ indicators[i].first_seen # hist[Key(indicators[i])].last.last_seen
    /\ indicators[i].status = "inactive"

\* Indicators to try on every store state: stored and new keys, with every
\* field different from what the feeds produce
ProbeInds ==
  { [type |-> t, value |-> v, source |-> src, first_seen |-> ts, last_seen |-> ts,
     tags |-> "probe", confidence |-> 10, status |-> st] :
      t \in {"url", "cidr"}, v \in {URL_A, CIDR_A}, src \in {"urlhaus", "spamhaus-drop"},
      ts \in {7}, st \in {"active", "inactive"} }
  \cup UNION { {pending[p][n] : n \in DOMAIN pending[p]} : p \in Procs }

\* C3: on every store state and for every indicator, upserting twice with the
\* same fields leaves the store as upserting once does, with exactly one
\* record for the key.
C3_Idempotent ==
  \A ind \in ProbeInds :
    LET once == upsert_indicator(indicators, ind)
        twice == upsert_indicator(once, ind)
    IN /\ twice = once
       /\ Cardinality({i \in DOMAIN twice : Key(twice[i]) = Key(ind)}) = 1

\* two runs have each upserted and the store holds a single record
C3_Witness ==
  /\ Len(indicators) = 1
  /\ \E r1, r2 \in DOMAIN runlog :
       r1 # r2 /\ runlog[r1].okUpserts >= 1 /\ runlog[r2].okUpserts >= 1

\* C4: every FeedRun changes status exactly once, from running to success or
\* error, whatever fails in its job: a run no thread is executing any more
\* is terminal.
C4_ChangesExactlyOnce ==
  \A r \in DOMAIN feed_runs : Executing(r) \/ Terminal(feed_runs[r])

\* Part of C4 that the code keeps: a FeedRun is never deleted and a terminal
\* one never changes.
C4_TerminalIsFinal ==
  [][\A r \in DOMAIN feed_runs :
       /\ r \in DOMAIN feed_runs'
       /\ Terminal(feed_runs[r]) => feed_runs'[r] = feed_runs[r]]_vars

\* C5: when the manual trigger has run to its end, the CIDR family's run was
\* started by it and is terminal, whatever happened to the URL-list run.
C5_SiblingRunHappens ==
  response # "none"
  => \E r \in DOMAIN feed_runs :
       /\ runlog[r].proc = "manual"
       /\ feed_runs[r].source = "spamhaus"
       /\ Terminal(feed_runs[r])

\* C6: a run in error holds the number of its completed upserts (none when
\* the fetcher failed), which no later step raises, and an error message.
C6_ErrorRun ==
  /\ \A r \in DOMAIN feed_runs :
       feed_runs[r].status = "error"
       => /\ feed_runs[r].items_ingested = runlog[r].okUpserts
          /\ feed_runs[r].error_text \in
               {HTML_MESSAGE, STORAGE_MESSAGE, transport_message(Timeout),
                transport_message(HttpError)}
  /\ \A p \in Procs :
       (Fetched(p) /\ cur[p].fetch = "raised")
       => /\ runlog[run_id[p]].okUpserts = 0
          /\ feed_runs[run_id[p]].items_ingested = 0
          /\ feed_runs[run_id[p]].status = "error"
             => feed_runs[run_id[p]].error_text \in
                  {HTML_MESSAGE, transport_message(Timeout), transport_message(HttpError)}
  /\ \A p \in Procs :
       pc[p] \in {"except", "returned", "raised"} => pending[p] = <<>>

\* a run ended in error after one upsert completed and the next one failed
C6_Witness ==
  \E r \in DOMAIN feed_runs :
    /\ feed_runs[r].status = "error"
    /\ feed_runs[r].items_ingested >= 1
    /\ feed_runs[r].error_text = STORAGE_MESSAGE
    /\ \E p \in Procs : run_id[p] = r /\ cur[p].attempts > feed_runs[r].items_ingested

\* C7: under any interleaving of runs the store holds, for every key ever
\* upserted, exactly one record, with the first_seen of the upsert that
\* inserted it and last_seen, tags, status and confidence all of the upsert
\* that committed last.
C7_AtomicUpsert ==
  \A k \in DOMAIN hist :
    /\ Cardinality(RowsOf(k)) = 1
    /\ \A i \in RowsOf(k) :
         /\ indicators[i].first_seen = hist[k].first_seen
         /\ indicators[i].type = hist[k].type
         /\ Seen(indicators[i]) = hist[k].last

\* two runs of the same family are both inside their upsert loops, both have
\* upserted the one stored key, with different fields
C7_Witness ==
  \E p, q \in Procs :
    /\ p # q /\ pc[p] = "loop" /\ pc[q] = "loop"
    /\ fam[p] = "urlhaus" /\ fam[q] = "urlhaus"
    /\ count[p] >= 1 /\ count[q] >= 1
    /\ Len(indicators) = 1
    /\ indicators[1].tags # ""
    /\ indicators[1].first_seen # hist[Key(indicators[1])].last.last_seen
    /\ pending[p] # <<>>

\* C8: no FeedRun stays running forever: once every thread is back idle,
\* every FeedRun is success or error with finished_at set.
C8_NoRunLeftRunning ==
  (\A p \in Procs : pc[p] = "idle")
  => \A r \in DOMAIN feed_runs :
       Terminal(feed_runs[r]) /\ feed_runs[r].finished_at # NoTime

\* The claim's own reading of "begins, trimmed and lowercased, with an HTML
\* document marker"
RECURSIVE Trimmed(_)
Trimmed(text) ==
  IF text = <<>> THEN <<>>
  ELSE IF Head(text).k = "blank" THEN Trimmed(Tail(text)) ELSE text
BeginsWithHtmlMarker(text) ==
  LET t == Trimmed(text)
  IN /\ t # <<>>
     /\ t[1].k = "markup"
     /\ t[1].tag \in {"<!DOCTYPE", "<!doctype", "<HTML", "<html"}

C10_Fallback ==
  \A p \in Procs :
    (Fetched(p) /\ fam[p] = "urlhaus")
    => LET csv == cur[p].csv
           tabular == IF csv.outcome = "ok" THEN parse_urlhaus_csv(csv.text, cur[p].at)
                      ELSE <<>>
           wanted == /\ csv.outcome = "ok"
                     /\ ~BeginsWithHtmlMarker(csv.text)
                     /\ tabular = <<>>
       IN /\ cur[p].reqs = IF wanted THEN <<URLHAUS_RECENT_CSV, URLHAUS_RECENT_TXT>>
                           ELSE <<URLHAUS_RECENT_CSV>>
          /\ tabular # <<>>
             => /\ cur[p].fetch = "returned"
                /\ cur[p].nfetched = Len(tabular)
                /\ (pc[p] = "loop" /\ cur[p].attempts = 0) => pending[p] = tabular

\* the fallback was requested after a header-only table and returned a URL
C10_Witness ==
  \E p \in Procs :
    /\ pc[p] = "loop"
    /\ cur[p].reqs = <<URLHAUS_RECENT_CSV, URLHAUS_RECENT_TXT>>
    /\ cur[p].csv = Ok(<<Comment("#"), Header>>)
    /\ cur[p].nfetched = 1

\* C11: the three drop lists are requested in the order drop, edrop, dropv6,
\* each after the one before it answered well; when a list fails, no later
\* list is requested, the fetch fails and the run upserts nothing, not even
\* what the lists before the failing one gave.
C11_AllOrNothing ==
  \A p \in Procs :
    (Fetched(p) /\ fam[p] = "spamhaus")
    => LET a == cur[p].answers
           n == Len(a)
           failed == \E i \in 1..n : a[i].outcome # "ok"
       IN /\ n \in 1..3
          /\ cur[p].reqs = SubSeq(<<"spamhaus-drop", "spamhaus-edrop", "spamhaus-dropv6">>, 1, n)
          /\ \A i \in 1..(n - 1) : a[i].outcome = "ok"
          /\ ~failed => n = 3 /\ cur[p].fetch = "returned"
          /\ failed => /\ cur[p].fetch = "raised"
                       /\ cur[p].nfetched = 0
                       /\ cur[p].attempts = 0
                       /\ runlog[run_id[p]].okUpserts = 0
                       /\ pc[p] # "loop"
                       /\ feed_runs[run_id[p]].status # "success"
                       /\ feed_runs[run_id[p]].items_ingested = 0

\* the second list timed out after the first gave a CIDR; the run is over,
\* in error, and the store holds no CIDR
C11_Witness ==
  \E p \in Procs :
    /\ pc[p] = "returned"
    /\ cur[p].answers = <<Ok(SPAM_LISTED), Timeout>>
    /\ feed_runs[run_id[p]].status = "error"
    /\ \A i \in DOMAIN indicators : indicators[i].type # "cidr"

ManualRuns(f) ==
  {r \in DOMAIN feed_runs : runlog[r].proc = "manual" /\ feed_runs[r].source = f}

\* C13: whenever the manual trigger has answered, its answer is the success
\* message, and a URL-list run and a later CIDR run that it started have
\* both ended.
C13_ReportsSuccess ==
  response # "none"
  => /\ response = "Feeds fetched."
     /\ \E u \in ManualRuns("urlhaus"), c \in ManualRuns("spamhaus") :
          u < c /\ Terminal(feed_runs[u]) /\ Terminal(feed_runs[c])

\* Part of C13 that the code keeps: the manual trigger answers with the
\* success message exactly when the two runs it started have both ended, in
\* success or in error; it never answers before its jobs are over.
C13_SuccessIffBothEnded ==
  [][(response = "none" /\ response' # "none")
     => /\ pc["manual"] \in {"returned", "raised"}
        /\ response' = "Feeds fetched."
           <=> /\ fam["manual"] = "spamhaus"
               /\ run_id["manual"] \in ManualRuns("spamhaus")
               /\ Terminal(feed_runs[run_id["manual"]])
               /\ \E u \in ManualRuns("urlhaus") :
                    /\ u < run_id["manual"]
                    /\ Terminal(feed_runs[u])
                    /\ \A v \in ManualRuns("urlhaus") : v <= u]_vars

Answered == probe.op = "query"
KeysOf(rows) == {Key(rows[i]) : i \in DOMAIN rows}
Descending(rows) ==
  \A i, j \in DOMAIN rows : i < j => rows[i].last_seen >= rows[j].last_seen
\* rows are distinct records of the store, and no record left out has a
\* greater last_seen than one that is in
GreatestOfStore(rows) ==
  /\ \A i \in DOMAIN rows :
       \E k \in DOMAIN indicators : select_columns(indicators[k]) = rows[i]
  /\ Cardinality(KeysOf(rows)) = Len(rows)
  /\ \A k \in DOMAIN indicators :
       Key(indicators[k]) \notin KeysOf(rows)
       => \A i \in DOMAIN rows : indicators[k].last_seen <= rows[i].last_seen
Min(a, b) == IF a < b THEN a ELSE b

\* C15: for every store and every limit the caller gives, the unfiltered
\* query answers at most limit records, exactly min(limit, total) of them,
\* in descending last_seen order, and they are those with the greatest
\* last_seen.
C15_OrderAndLimit ==
  Answered
  => /\ Descending(probe.out)
     /\ Len(probe.out) <= probe.arg
     /\ Len(probe.out) = Min(probe.arg, Len(indicators))
     /\ GreatestOfStore(probe.out)

\* C15 as amended: the same for every limit that is not negative; to a
\* negative limit the query answers every record, in descending order.
C15_OrderAndNonNegativeLimit ==
  Answered
  => /\ Descending(probe.out)
     /\ GreatestOfStore(probe.out)
     /\ probe.arg >= 0 => Len(probe.out) = Min(probe.arg, Len(indicators))
     /\ probe.arg < 0 => Len(probe.out) = Len(indicators)

\* a store of three records, the oldest one first and the other two with
\* the same last_seen, was asked for two
C15_Witness ==
  /\ Answered /\ probe.arg = 2 /\ Len(probe.out) = 2
  /\ Len(indicators) = 3
  /\ indicators[1].last_seen < indicators[2].last_seen
  /\ indicators[2].last_seen = indicators[3].last_seen
  /\ probe.out[2].last_seen > indicators[1].last_seen

\* The rows of a table that have a url, and the three spellings of offline
\* that occur in the tables
IsUrlRow(ln) == ln.k = "row" /\ ln.url # ""
IsOffline(v) == v \in {"offline", "OFFLINE", "Offline"}

\* C16: the parser gives one indicator for each row that has a url, and it
\* is inactive exactly when the row's url_status is offline in any case;
\* with any other url_status, or none, it is active.
C16_OfflineByUrlStatus ==
  probe.op = "parse_csv"
  => LET rows == SelectSeq(probe.arg, IsUrlRow)
     IN /\ Len(probe.out) = Len(rows)
        /\ \A i \in DOMAIN rows :
             /\ probe.out[i].value = rows[i].url
             /\ probe.out[i].status =
                  IF IsOffline(rows[i].url_status) THEN "inactive" ELSE "active"

\* C16 as amended: the liveness value is that of url_status or, when the
\* row's url_status is empty, that of its status column.
C16_OfflineByLivenessField ==
  probe.op = "parse_csv"
  => LET rows == SelectSeq(probe.arg, IsUrlRow)
     IN /\ Len(probe.out) = Len(rows)
        /\ \A i \in DOMAIN rows :
             LET liveness == IF rows[i].url_status # "" THEN rows[i].url_status
                             ELSE rows[i].status
             IN /\ probe.out[i].value = rows[i].url
                /\ probe.out[i].status =
                     IF IsOffline(liveness) THEN "inactive" ELSE "active"

\* a table was parsed whose first row has only its status column set, to
\* OFFLINE, and whose second row says Offline in url_status: both inactive
C16_Witness ==
  /\ probe.op = "parse_csv" /\ Len(probe.out) = 2
  /\ probe.arg[5].url_status = "Offline" /\ probe.arg[5].status = "ONLINE"
  /\ probe.out[1].status = "inactive" /\ probe.out[2].status = "inactive"

\* The claim's own reading of a drop-list line: its first token, and whether
\* the line is one that names a CIDR
FirstToken(ln) ==
  CASE ln.k = "text" -> ln.toks[1]
    [] ln.k = "markup" -> ln.tag
    [] ln.k = "comment" -> ln.c
    [] OTHER -> ""
NamesCidr(ln) ==
  /\ ln.k # "blank"
  /\ ~(ln.k = "comment" /\ ln.c = ";")
  /\ FirstToken(ln) \in {CIDR_A, "2001:db8::/32", "203.0.113.0/24;SBL1", "</html>"}

\* C17: the drop-list parser gives one indicator, in order, for each line
\* that is not blank, does not begin with ";" and has "/" in its first
\* token, with that token as its value; every other line gives nothing and
\* does not stop the lines after it from being parsed.
C17_DropListLines ==
  probe.op = "parse_drop"
  => LET lines == SelectSeq(probe.arg, NamesCidr)
     IN /\ Len(probe.out) = Len(lines)
        /\ \A i \in DOMAIN lines :
             /\ probe.out[i].value = FirstToken(lines[i])
             /\ probe.out[i].type = "cidr"
             /\ probe.out[i].source = "spamhaus-edrop"

\* a line with no CIDR came first and the line after it, with a reference
\* text after its CIDR, gave the one indicator
C17_Witness ==
  /\ probe.op = "parse_drop"
  /\ probe.arg[1] = Text("not a/cidr", <<"not", "a/cidr">>)
  /\ Len(probe.arg) = 2
  /\ Len(probe.out) = 1 /\ probe.out[1].value = "198.51.100.0/24"

\* C18: in every state, every FeedRun with an error_text is in error, every
\* FeedRun that is running or in success has none, and finished_at is unset
\* exactly in the runs that are running.
C18_RunFields ==
  \A r \in DOMAIN feed_runs :
    LET run == feed_runs[r]
    IN /\ run.status \in {"running", "success", "error"}
       /\ run.error_text # NULL => run.status = "error"
       /\ run.status \in {"running", "success"} => run.error_text = NULL
       /\ run.finished_at = NoTime <=> run.status = "running"

\* three runs, one running, one in success and one in error with its text
C18_Witness ==
  \E a, b, c \in DOMAIN feed_runs :
    /\ feed_runs[a].status = "running"
    /\ feed_runs[b].status = "success"
    /\ feed_runs[c].status = "error" /\ feed_runs[c].error_text # NULL

\* C19: a run in success holds the number of indicators its fetcher gave,
\* each one upserted once and counted once, a repeated (value, source)
\* included; when the run has just been finalized, every (value, source)
\* it fetched is in the store.
C19_SuccessCount ==
  /\ \A r \in DOMAIN feed_runs :
       feed_runs[r].status = "success"
       => feed_runs[r].items_ingested = runlog[r].okUpserts
  /\ \A p \in Procs :
       (pc[p] = "returned" /\ feed_runs[run_id[p]].status = "success")
       => /\ cur[p].fetch = "returned"
          /\ feed_runs[run_id[p]].items_ingested = cur[p].nfetched
          /\ cur[p].attempts = cur[p].nfetched
          /\ \A k \in cur[p].keys : RowsOf(k) # {}

\* the fallback gave the same URL twice and the run ended in success with
\* two items for the one key
C19_Witness ==
  \E p \in Procs :
    /\ pc[p] = "returned"
    /\ feed_runs[run_id[p]].status = "success"
    /\ feed_runs[run_id[p]].items_ingested = 2
    /\ Cardinality(cur[p].keys) = 1

\* C20: every stored indicator has first_seen <= last_seen, after any runs.
C20_FirstSeenNotAfterLastSeen ==
  \A i \in DOMAIN indicators : indicators[i].first_seen <= indicators[i].last_seen

====
